---- MODULE Spec2Model ----
(***************************************************************************)
(* Model of the call-tree profiler of timer_module/profiler.py             *)
(* (TimeProfilerBase / TimeProfiler / StdOut).                             *)
(*                                                                         *)
(* The wrapped program is modelled as a set of tasks (threads or asyncio   *)
(* tasks), each with its own stack of wrapper invocations in flight.  The  *)
(* profiler state is the class-level state set up by __new__: the          *)
(* registry _object_refs, the groups _timing_refs, the grand total         *)
(* _timing_total and the active-root slot _pcall_hash.                     *)
(*                                                                         *)
(* The stopwatch TimerModule of timer_module.py is modelled next to it,    *)
(* with its own variables and its own specification SpecTimer.             *)
(***************************************************************************)
EXTENDS Integers, Sequences, FiniteSets, TLC

\* ---------------------------------------------------------------- bounds
MaxDepth == 2      \* wrapper invocations in flight per task
MaxClock == 1      \* last value of the time_ns() clock
MaxCalls == 3      \* wrapper invocations started in one behaviour

\* ------------------------------------------------------------- universe
Tasks      == {"t1", "t2"}
ChainTasks == {"t1"}
InstAddrs  == {3, 4}            \* addresses an instance of A can live at

None       == 0                 \* Python None in _pcall_hash
NoInstance == 0                 \* the class has no attribute "instance"

\* Callable objects: what __qualname__, __module__ and str() can see.
\* addr is id(obj) for a function and id(obj.__self__) for a bound method.
Outer   == [kind |-> "function", module |-> "m", qualname |-> "outer", addr |-> 1]
ClsA    == [kind |-> "class",    module |-> "m", qualname |-> "A",     addr |-> 0]
StaticG == [kind |-> "function", module |-> "m", qualname |-> "A.g",   addr |-> 5]
BoundF(a) == [kind |-> "method", module |-> "m", qualname |-> "A.f",   addr |-> a]

Functions == {Outer}
Classes   == {ClsA}
Callables == Functions \cup Classes \cup {StaticG} \cup {BoundF(a) : a \in InstAddrs}

\* getmembers(cls_instance, ismethod) + getmembers(cls_instance, isfunction)
\* for an instance of A living at address a: the bound method A.f and the
\* static function A.g.
Members(a) == {BoundF(a), StaticG}

\* ------------------------------------------------------ identity (hash)
\* str(obj): "<function outer at 0x1>", "<class 'm.A'>",
\* "<bound method A.f of <... object at 0x3>>".
Str(obj) ==
  CASE obj.kind = "function" -> <<"function", obj.qualname, obj.addr>>
    [] obj.kind = "class"    -> <<"class", obj.module, obj.qualname>>
    [] obj.kind = "method"   -> <<"bound method", obj.qualname, obj.addr>>

NameCode(n) ==
  CASE n = "outer" -> 1
    [] n = "A"     -> 3
    [] n = "A.f"   -> 4
    [] n = "A.g"   -> 5
    [] n = "m"     -> 6

\* SHA-1 of the encoded string, read as an integer: a deterministic function
\* of the string alone, collision-free on the strings of this universe.
Sha1(s) ==
  CASE s[1] = "function"     -> 1000 + 10 * NameCode(s[2]) + s[3]
    [] s[1] = "class"        -> 2000 + 10 * NameCode(s[3]) + NameCode(s[2])
    [] s[1] = "bound method" -> 3000 + 10 * NameCode(s[2]) + s[3]

hash_type_id(type_id) == Sha1(Str(type_id))

\* ---------------------------------------------------------------- state
VARIABLES
  instance,      \* cls.instance: NoInstance or the id of the one instance
  realtime,      \* self._realtime
  object_refs,   \* cls._object_refs : identity -> ObjectCall
  timing_refs,   \* cls._timing_refs : root identity -> set of identities
  timing_total,  \* _timing_total
  pcall_hash,    \* _pcall_hash
  wrapped,       \* callables for which a wrapper has been returned
  stacks,        \* per task: the wrapper invocations in flight
  now,           \* the last reading of time_ns()
  calls,         \* number of wrapper invocations started
  op,            \* the operation performed by the last step
  timer,         \* a TimerModule object: is_running, st_time, cr_time
  ms,            \* the clock get_timestamp_ms() reads
  ran,           \* clock time elapsed while is_running since the last reset
  tm_op          \* the last TimerModule call and what it returned

vars == <<instance, realtime, object_refs, timing_refs, timing_total,
          pcall_hash, wrapped, stacks, now, calls, op, timer, ms, ran, tm_op>>

\* the state of the profiler and of the program it wraps
profiling == <<instance, realtime, object_refs, timing_refs, timing_total,
               pcall_hash, wrapped, stacks, now, calls, op>>

\* the state of the stopwatch and its clock
stopwatch == <<timer, ms, ran, tm_op>>

profiler == <<object_refs, timing_refs, timing_total, pcall_hash>>

\* name: the kind of operation; rendered: it printed the report; error: the
\* report raised; repeat: it constructed the profiler when one existed
Op(name, rendered, error, repeat) ==
  [name |-> name, rendered |-> rendered, error |-> error, repeat |-> repeat]

NoOp == Op("import", FALSE, FALSE, FALSE)

\* ObjectCall(name, module, time=0.0, ncalls=0)
create_object_call(obj) ==
  [name |-> obj.qualname, module |-> obj.module, time_ns |-> 0, ncalls |-> 0]

\* _add_object_ref creating the record without storing it
create_without_storing(refs, obj) == refs

\* _add_object_ref: self._object_refs[hash_ref] = object_call
add_object_ref(refs, obj) ==
  LET hash_ref == hash_type_id(obj)
  IN  [k \in DOMAIN refs \cup {hash_ref} |->
         IF k = hash_ref THEN create_object_call(obj) ELSE refs[k]]

\* TimerModule.__init__
TimerModule == [is_running |-> FALSE, st_time |-> 0, cr_time |-> 0]

\* name: the method called; ret: the value get_time_ms returned
TmOp(name, ret) == [name |-> name, ret |-> ret]

InitStopwatch ==
  /\ timer = TimerModule
  /\ ms = 0
  /\ ran = 0
  /\ tm_op = TmOp("TimerModule", 0)

Init ==
  /\ InitStopwatch
  /\ instance = NoInstance
  /\ realtime = FALSE
  /\ object_refs = [k \in {} |-> 0]
  /\ timing_refs = [k \in {} |-> {}]
  /\ timing_total = 0
  /\ pcall_hash = None
  /\ wrapped = {}
  /\ stacks = [t \in Tasks |-> <<>>]
  /\ now = 0
  /\ calls = 0
  /\ op = NoOp

\* __new__ creating an instance on every construction
always_new_instance == TRUE

\* TimeProfilerBase.__new__ line 108: is a fresh instance (and fresh class
\* state) created?
needs_new_instance == instance = NoInstance

\* TimeProfiler(realtime=r): __new__ then __init__
Construct(r) ==
  /\ IF needs_new_instance
       THEN /\ instance' = instance + 1
            /\ object_refs' = [k \in {} |-> 0]
            /\ timing_refs' = [k \in {} |-> {}]
            /\ timing_total' = 0
            /\ pcall_hash' = None
       ELSE UNCHANGED <<instance, object_refs, timing_refs, timing_total, pcall_hash>>
  /\ realtime' = r
  /\ op' = Op("TimeProfiler", FALSE, FALSE, instance # NoInstance)
  /\ UNCHANGED <<wrapped, stacks, now, calls>>
  /\ UNCHANGED stopwatch

\* ------------------------------------------------------------ tracker
\* _set_pcall_hash taking the slot (and starting a group) at every entry
claim_at_every_entry(pcall, trefs, object_hash) ==
  [pcall_hash  |-> object_hash,
   timing_refs |-> [k \in DOMAIN trefs \cup {object_hash} |->
                      IF k = object_hash THEN {object_hash} ELSE trefs[k]]]

\* _set_pcall_hash adding only the nested calls to the group, not the root
group_without_root(pcall, trefs, object_hash) ==
  LET claim == pcall = None
      p     == IF claim THEN object_hash ELSE pcall
  IN  [pcall_hash  |-> p,
       timing_refs |-> IF claim
                         THEN [k \in DOMAIN trefs \cup {p} |-> IF k = p THEN {} ELSE trefs[k]]
                         ELSE [trefs EXCEPT ![p] = @ \cup {object_hash}]]

\* _set_pcall_hash(object_hash): the slot and the groups afterwards
set_pcall_hash(pcall, trefs, object_hash) ==
  LET claim == pcall = None
      p     == IF claim THEN object_hash ELSE pcall
      t1    == IF claim
                 THEN [k \in DOMAIN trefs \cup {p} |-> IF k = p THEN {} ELSE trefs[k]]
                 ELSE trefs
  IN  [pcall_hash  |-> p,
       timing_refs |-> [t1 EXCEPT ![p] = @ \cup {object_hash}]]

\* _append_object_profiling line 142-143: does this leave close the cycle
\* (add to the grand total, clear the slot, render in realtime mode)?
closes_cycle(pcall, object_hash) ==
  /\ pcall # None
  /\ ~(object_hash = pcall)

\* _append_object_profiling adding the time without counting the call
append_time_only(refs, pcall, total, object_hash, t_ns) ==
  LET closes == closes_cycle(pcall, object_hash)
  IN  [object_refs  |-> [refs EXCEPT ![object_hash].time_ns = @ + t_ns],
       timing_total |-> IF closes THEN total + t_ns ELSE total,
       pcall_hash   |-> IF closes THEN None ELSE pcall,
       closes       |-> closes]

\* _append_object_profiling(object_hash, time_ns): registry, total and slot
append_object_profiling(refs, pcall, total, object_hash, t_ns) ==
  LET closes == closes_cycle(pcall, object_hash)
  IN  [object_refs  |-> [refs EXCEPT ![object_hash].time_ns = @ + t_ns,
                                     ![object_hash].ncalls = @ + 1],
       timing_total |-> IF closes THEN total + t_ns ELSE total,
       pcall_hash   |-> IF closes THEN None ELSE pcall,
       closes       |-> closes]

\* ----------------------------------------------------------- renderer
\* a / b of Python: the quotient as a pair, or ZeroDivisionError
TrueDiv(a, b) == [error |-> b = 0, num |-> a, den |-> b]

\* StdOut.print_primary_call
print_primary_call(primary_call) ==
  LET percall_time_ns == TrueDiv(primary_call.time_ns, primary_call.ncalls)
  IN  [error |-> percall_time_ns.error, name |-> primary_call.name,
       ncalls |-> primary_call.ncalls, percall |-> percall_time_ns]

\* StdOut.print_call.  obj_time is the formatted string, so "obj_time != 0"
\* is always true and only pcall_time guards the percentage.
print_call(object_call, pcall_time) ==
  LET percall_time_ns == TrueDiv(object_call.time_ns, object_call.ncalls)
      t_prc == IF pcall_time # 0
                 THEN TrueDiv(object_call.time_ns * 100, pcall_time)
                 ELSE TrueDiv(0, 1)
  IN  [error |-> percall_time_ns.error \/ t_prc.error, name |-> object_call.name,
       ncalls |-> object_call.ncalls, percall |-> percall_time_ns]

\* the inner loop of print_profiling_report: the members print_call is
\* called for ("if ref_hash == pcall_hash: continue")
member_calls(ref_list, pcall) ==
  {ref_hash \in ref_list : ~(ref_hash = pcall)}

\* StdOut.print_profiling_report: does the rendering raise, and the member
\* lines it prints under each root when no line raises
print_profiling_report(refs, trefs) ==
  [error |-> \E p \in DOMAIN trefs :
               \/ print_primary_call(refs[p]).error
               \/ \E r \in member_calls(trefs[p], p) :
                     print_call(refs[r], refs[p].time_ns).error,
   lines |-> [p \in DOMAIN trefs |-> member_calls(trefs[p], p)]]

\* ------------------------------------------------------------- wrapping
\* function_profiler / async_function_profiler
FunctionProfiler(f) ==
  /\ instance # NoInstance
  /\ f \in Functions
  /\ object_refs' = add_object_ref(object_refs, f)
  /\ wrapped' = wrapped \cup {f}
  /\ op' = Op("register", FALSE, FALSE, FALSE)
  /\ UNCHANGED <<instance, realtime, timing_refs, timing_total, pcall_hash,
                 stacks, now, calls>>
  /\ UNCHANGED stopwatch

\* class_profiler
ClassProfiler(c) ==
  /\ instance # NoInstance
  /\ c \in Classes
  /\ object_refs' = add_object_ref(object_refs, c)
  /\ wrapped' = wrapped \cup {c}
  /\ op' = Op("register", FALSE, FALSE, FALSE)
  /\ UNCHANGED <<instance, realtime, timing_refs, timing_total, pcall_hash,
                 stacks, now, calls>>
  /\ UNCHANGED stopwatch

\* ------------------------------------------------------------ wrappers
\* One wrapper invocation in flight: the locals hash_ref and start_time, the
\* address of the instance it runs on (0 for a plain function), whether it
\* took the slot at entry, and for such a root the identities entered since.
Frame(h, start, root, self) ==
  [hash_ref |-> h, start_time |-> start, self |-> self, new_root |-> root,
   span |-> IF root THEN {h} ELSE {}]

\* every root invocation in flight in the chain sees the call of h in its span
Spanned(stack, h) ==
  [i \in 1..Len(stack) |->
     IF stack[i].new_root THEN [stack[i] EXCEPT !.span = @ \cup {h}] ELSE stack[i]]

\* addresses of the instances some invocation in flight is running on
LiveAddrs == UNION {{stacks[t][i].self : i \in 1..Len(stacks[t])} : t \in Tasks}

\* time_ns() is monotonic: the values the next reading can give
Readings == now..MaxClock

\* the entry half of function_wrapper (sync and async alike):
\* hash_ref = self._set_pcall_hash(main_ref); start_time = time_ns(),
\* where time_ns() reads clock
Enter(t, h, self, clock) ==
  LET e == set_pcall_hash(pcall_hash, timing_refs, h)
      root == pcall_hash = None
  IN  /\ pcall_hash' = e.pcall_hash
      /\ timing_refs' = e.timing_refs
      /\ stacks' = [stacks EXCEPT ![t] = Append(Spanned(stacks[t], h), Frame(h, clock, root, self))]
      /\ calls' = calls + 1
      /\ now' = clock
      /\ op' = Op("enter", FALSE, FALSE, FALSE)

CanEnter(t) ==
  /\ instance # NoInstance
  /\ Len(stacks[t]) < MaxDepth
  /\ calls < MaxCalls

\* a wrapped function or a wrapped member of an instance is called
WrapperCall(t, obj) ==
  /\ CanEnter(t)
  /\ obj \in wrapped
  /\ obj.kind # "class"
  /\ \E clock \in Readings : Enter(t, hash_type_id(obj),
                                 IF obj.kind = "method" THEN obj.addr ELSE 0, clock)
  /\ UNCHANGED <<instance, realtime, object_refs, timing_total, wrapped>>
  /\ UNCHANGED stopwatch

RECURSIVE add_object_refs(_, _)
add_object_refs(refs, objs) ==
  IF objs = {} THEN refs
  ELSE LET member == CHOOSE m \in objs : TRUE
       IN  add_object_refs(add_object_ref(refs, member), objs \ {member})

\* ClassWrapper(...): __new__ registers and wraps every member of the new
\* instance (living at address a), then __init__ is entered as a timed call.
\* An address is reused only when the earlier instance there is gone, so no
\* invocation in flight runs on it.
ClassWrapperCall(t, c, a) ==
  /\ CanEnter(t)
  /\ c \in Classes \cap wrapped
  /\ a \in InstAddrs
  /\ a \notin LiveAddrs
  /\ object_refs' = add_object_refs(object_refs, Members(a))
  /\ wrapped' = wrapped \cup Members(a)
  /\ \E clock \in Readings : Enter(t, hash_type_id(c), a, clock)
  /\ UNCHANGED <<instance, realtime, timing_total>>
  /\ UNCHANGED stopwatch

Top(t) == stacks[t][Len(stacks[t])]
Pop(t) == [stacks EXCEPT ![t] = SubSeq(@, 1, Len(@) - 1)]

\* the callable of the innermost invocation of task t returns: the exit half
\* of function_wrapper, _append_object_profiling and the realtime report
WrapperReturn(t) ==
  /\ Len(stacks[t]) > 0
  /\ \E clock \in Readings :
     LET fr == Top(t)
         elapsed_time == clock - fr.start_time
         a == append_object_profiling(object_refs, pcall_hash, timing_total,
                                      fr.hash_ref, elapsed_time)
         rendered == a.closes /\ realtime
     IN  /\ object_refs' = a.object_refs
         /\ timing_total' = a.timing_total
         /\ pcall_hash' = a.pcall_hash
         /\ op' = Op("return", rendered,
                     rendered /\ print_profiling_report(a.object_refs, timing_refs).error,
                     FALSE)
         /\ now' = clock
  /\ stacks' = Pop(t)
  /\ UNCHANGED <<instance, realtime, timing_refs, wrapped, calls>>
  /\ UNCHANGED stopwatch

\* the callable of the innermost invocation of task t raises (or its await is
\* cancelled): the exception leaves function_wrapper at the call line
WrapperRaise(t) ==
  /\ Len(stacks[t]) > 0
  /\ op' = Op("raise", FALSE, FALSE, FALSE)
  /\ stacks' = Pop(t)
  /\ UNCHANGED <<instance, realtime, object_refs, timing_refs, timing_total,
                 pcall_hash, wrapped, now, calls>>
  /\ UNCHANGED stopwatch

\* _print_report, on demand or from __del__: prints (or raises) what
\* print_profiling_report gives for the current registry and groups, and
\* changes nothing
PrintReport ==
  /\ instance # NoInstance
  /\ print_profiling_report(object_refs, timing_refs).error \in BOOLEAN
  /\ UNCHANGED vars

\* ------------------------------------------------------ specifications
Next ==
  \/ \E r \in BOOLEAN : Construct(r)
  \/ \E f \in Functions : FunctionProfiler(f)
  \/ \E c \in Classes : ClassProfiler(c)
  \/ \E t \in ChainTasks, obj \in Callables : WrapperCall(t, obj)
  \/ \E t \in ChainTasks, c \in Classes, a \in InstAddrs : ClassWrapperCall(t, c, a)
  \/ \E t \in ChainTasks : WrapperReturn(t)
  \/ \E t \in ChainTasks : WrapperRaise(t)
  \/ PrintReport

Spec == Init /\ [][Next]_vars

\* One chain of well-nested synchronous calls of an already decorated
\* program: TimeProfiler() was constructed with the default realtime=False,
\* outer and class A are wrapped, nothing raises.
InitCalls ==
  /\ InitStopwatch
  /\ instance = 1
  /\ realtime = FALSE
  /\ object_refs = add_object_refs([k \in {} |-> 0], {Outer, ClsA})
  /\ timing_refs = [k \in {} |-> {}]
  /\ timing_total = 0
  /\ pcall_hash = None
  /\ wrapped = {Outer, ClsA}
  /\ stacks = [t \in Tasks |-> <<>>]
  /\ now = 0
  /\ calls = 0
  /\ op = Op("register", FALSE, FALSE, FALSE)

NextCalls ==
  \/ \E t \in ChainTasks, obj \in Callables : WrapperCall(t, obj)
  \/ \E t \in ChainTasks, c \in Classes, a \in InstAddrs : ClassWrapperCall(t, c, a)
  \/ \E t \in ChainTasks : WrapperReturn(t)
  \/ PrintReport

SpecCalls == InitCalls /\ [][NextCalls]_vars

\* ------------------------------------------------------- step predicates
\* task t's innermost invocation returned in this step
ReturnStep(t) ==
  /\ op'.name = "return"
  /\ Len(stacks[t]) > 0
  /\ stacks' = Pop(t)

\* task t's innermost invocation was left by an exception in this step
RaiseStep(t) ==
  /\ op'.name = "raise"
  /\ Len(stacks[t]) > 0
  /\ stacks' = Pop(t)

\* task t entered a wrapper in this step
EnterStep(t) ==
  /\ op'.name = "enter"
  /\ Len(stacks'[t]) = Len(stacks[t]) + 1

Entered(t) == stacks'[t][Len(stacks'[t])]

\* the elapsed time the returning wrapper of task t measured
Elapsed(t) == now' - Top(t).start_time

RootsInFlight(t) == {i \in 1..Len(stacks[t]) : stacks[t][i].new_root}

\* ------------------------------------------------------------- claims

\* C1: in one call chain, when a root call R (entered while no root was
\* active) returns, every call entered since R's entry is a member of R's
\* group, and while R is in flight no identity other than R starts a group of
\* its own.
C1_ChainGroupedUnderRoot ==
  [][\A t \in Tasks :
       /\ (ReturnStep(t) /\ Top(t).new_root) =>
            /\ Top(t).hash_ref \in DOMAIN timing_refs'
            /\ Top(t).span \subseteq timing_refs'[Top(t).hash_ref]
       /\ EnterStep(t) =>
            \A i \in RootsInFlight(t) :
               Entered(t).new_root => Entered(t).hash_ref = stacks[t][i].hash_ref]_vars

\* C2: the report is rendered by a return exactly when live reporting is on
\* and the returning call is the root call (entered while no root was
\* active); entering a call never renders.
C2_RenderAtRootReturnOnly ==
  [][\A t \in Tasks :
       /\ ReturnStep(t) => (op'.rendered <=> (realtime /\ Top(t).new_root))
       /\ EnterStep(t) => ~op'.rendered]_vars

\* C3: a record changes only when an invocation of its own identity returns,
\* and then by exactly one call and the elapsed time; no enter, no return of
\* another identity and no rendering changes it.
C3_CountsMatchCompletedCalls ==
  [][\A k \in DOMAIN object_refs :
       IF \E t \in Tasks : ReturnStep(t) /\ Top(t).hash_ref = k
         THEN \A t \in Tasks :
                (ReturnStep(t) /\ Top(t).hash_ref = k) =>
                  /\ object_refs'[k].ncalls = object_refs[k].ncalls + 1
                  /\ object_refs'[k].time_ns = object_refs[k].time_ns + Elapsed(t)
         ELSE object_refs'[k] = object_refs[k]]_vars

\* C4: a return adds its elapsed time to the grand total if and only if the
\* returning identity is the active root; nothing else changes the total.
C4_TotalIsRootTimeOnly ==
  [][/\ \A t \in Tasks :
          ReturnStep(t) =>
            timing_total' = timing_total +
              (IF Top(t).hash_ref = pcall_hash THEN Elapsed(t) ELSE 0)
     /\ (\A t \in Tasks : ~ReturnStep(t)) => timing_total' = timing_total]_vars

\* C5: when a wrapped callable raises, the leave bookkeeping has still run:
\* its record has one more call and the time up to the raise.
C5_RaiseStillRecorded ==
  [][\A t \in Tasks :
       RaiseStep(t) =>
         /\ object_refs'[Top(t).hash_ref].ncalls = object_refs[Top(t).hash_ref].ncalls + 1
         /\ object_refs'[Top(t).hash_ref].time_ns >=
              object_refs[Top(t).hash_ref].time_ns + (now - Top(t).start_time)]_vars

\* C6: when the call holding the active-root slot is left by an exception,
\* the slot is none afterwards.
C6_RaiseFreesRootSlot ==
  [][\A t \in Tasks :
       (RaiseStep(t) /\ Top(t).new_root /\ Top(t).hash_ref = pcall_hash) =>
         pcall_hash' = None]_vars

\* C7: registering an identity that is already in the registry leaves its
\* record (time and count) unchanged.
C7_RegistrationIdempotent ==
  [][op'.name \in {"register", "enter"} =>
       \A k \in DOMAIN object_refs :
          /\ object_refs'[k].time_ns = object_refs[k].time_ns
          /\ object_refs'[k].ncalls = object_refs[k].ncalls]_vars

\* C8: rendering the report never raises a division by zero, neither after a
\* leave in live mode nor on demand in any state of the profiler.
C8_RenderNeverDividesByZero ==
  /\ op.rendered => ~op.error
  /\ instance # NoInstance => ~print_profiling_report(object_refs, timing_refs).error

\* C9: there is one profiler instance; constructing TimeProfiler again returns
\* it and leaves registry, groups, grand total and active root as they were.
C9_Singleton ==
  [][(op'.name = "TimeProfiler" /\ instance # NoInstance) =>
       /\ instance' = instance
       /\ UNCHANGED profiler]_vars

\* C9 witness: a repeated construction on a profiler that has accumulated state
C9_Witness ==
  /\ op.name = "TimeProfiler"
  /\ op.repeat
  /\ timing_total > 0
  /\ pcall_hash # None
  /\ \E k \in DOMAIN object_refs : object_refs[k].ncalls > 0

\* C10: two wrapped callables have the same identity exactly when they have
\* the same module and qualified name.
C10_IdentityIsName ==
  \A a, b \in wrapped :
     (a.module = b.module /\ a.qualname = b.qualname)
        <=> hash_type_id(a) = hash_type_id(b)

\* another invocation of the identity of task t's innermost invocation is in
\* flight below it (direct or indirect recursion)
Recursive(t) ==
  \E i \in 1..(Len(stacks[t]) - 1) : stacks[t][i].hash_ref = Top(t).hash_ref

\* C11: when a non-recursive root invocation returns (the returning identity
\* equals the active root), the active-root slot is none afterwards, so the
\* next call entered becomes a new root.
C11_RootReturnFreesSlot ==
  [][\A t \in Tasks :
       (ReturnStep(t) /\ Top(t).new_root /\ Top(t).hash_ref = pcall_hash /\ ~Recursive(t))
          => pcall_hash' = None]_vars

\* C12: when a nested call returns (the returning identity differs from the
\* active root), only that identity's record changes: the slot, the groups
\* and the grand total are unchanged and no report is rendered.
C12_NestedReturnOnlyRecord ==
  [][\A t \in Tasks :
       (ReturnStep(t) /\ pcall_hash # None /\ Top(t).hash_ref # pcall_hash) =>
          /\ pcall_hash' = pcall_hash
          /\ timing_refs' = timing_refs
          /\ timing_total' = timing_total
          /\ ~op'.rendered
          /\ \A k \in DOMAIN object_refs :
                k # Top(t).hash_ref => object_refs'[k] = object_refs[k]]_vars

\* C13: no step other than the reset of a fresh profiler removes a group or
\* a member of a group: an identity that becomes the root again keeps the
\* members its group recorded in earlier cycles.
C13_GroupsNeverShrink ==
  [][op'.name # "TimeProfiler" =>
       \A k \in DOMAIN timing_refs :
          /\ k \in DOMAIN timing_refs'
          /\ timing_refs[k] \subseteq timing_refs'[k]]_vars

\* C14: when a directly recursive invocation of the active root returns while
\* the invocation that called it is still in flight, the slot is cleared by
\* that innermost return.
C14_RecursiveReturnClearsSlot ==
  [][\A t \in Tasks :
       ( /\ ReturnStep(t)
         /\ Len(stacks[t]) >= 2
         /\ stacks[t][Len(stacks[t]) - 1].hash_ref = Top(t).hash_ref
         /\ Top(t).hash_ref = pcall_hash )
          => pcall_hash' = None]_vars

\* -------------------------------------------------- interleaved chains
\* Two call chains of an already decorated program (two threads, or two
\* asyncio tasks suspended at an await inside a wrapped coroutine), which can
\* interleave at every wrapper entry and return.  There is no lock and one
\* slot _pcall_hash for all of them.
NextTasks ==
  \/ \E t \in Tasks, obj \in Callables : WrapperCall(t, obj)
  \/ \E t \in Tasks, c \in Classes, a \in InstAddrs : ClassWrapperCall(t, c, a)
  \/ \E t \in Tasks : WrapperReturn(t)

SpecTasks == InitCalls /\ [][NextTasks]_vars

\* the slot is held by a root invocation in flight in a task other than t
HeldByOtherChain(t) ==
  \E u \in Tasks \ {t} :
     \E i \in RootsInFlight(u) : stacks[u][i].hash_ref = pcall_hash

C16_CountAndTimeConsistent ==
  \A k \in DOMAIN object_refs :
     /\ object_refs[k].ncalls >= 0
     /\ object_refs[k].ncalls = 0 => object_refs[k].time_ns = 0

\* C16 witness: after calls that took time, a registration has put a record
\* back to no calls and no time while another record has calls and time
C16_Witness ==
  /\ op.name = "register"
  /\ timing_total > 0
  /\ \E k \in DOMAIN object_refs :
        object_refs[k].ncalls = 0 /\ object_refs[k].time_ns = 0
  /\ \E k \in DOMAIN object_refs :
        object_refs[k].ncalls > 0 /\ object_refs[k].time_ns > 0

\* C18: an occupied slot names a group, and every group contains its own key.
C18_SlotAndGroupsConsistent ==
  /\ pcall_hash # None => pcall_hash \in DOMAIN timing_refs
  /\ \A k \in DOMAIN timing_refs : k \in timing_refs[k]

\* C18 witness: a call has just taken the free slot and started the second
\* group, after an earlier cycle left a group with a nested member behind
C18_Witness ==
  /\ op.name = "enter"
  /\ pcall_hash # None
  /\ timing_refs[pcall_hash] = {pcall_hash}
  /\ \E k \in DOMAIN timing_refs \ {pcall_hash} : Cardinality(timing_refs[k]) >= 2

\* C19: every group key and every member of a group is a key of the registry.
C19_GroupsAreRegistered ==
  \A k \in DOMAIN timing_refs :
     /\ k \in DOMAIN object_refs
     /\ timing_refs[k] \subseteq DOMAIN object_refs

\* C19 witness: a member registered by the construction of an instance (a
\* bound method) is a member of a group and the report is rendered
C19_Witness ==
  /\ op.rendered
  /\ \E k \in DOMAIN timing_refs :
        \E a \in InstAddrs : hash_type_id(BoundF(a)) \in timing_refs[k] \ {k}

\* the members group k has gained in this step
Joined(k) ==
  timing_refs'[k] \ (IF k \in DOMAIN timing_refs THEN timing_refs[k] ELSE {})

\* C17: a report that completes prints, under each root, one member line for
\* every member of the root's group except the root and none for the root;
\* and a member line stands for a call nested in the root: an identity other
\* than the root joins a group only while a root invocation of the group's
\* key is in flight, so a root that made no nested call has a group of only
\* itself and no member lines.
C17_MemberLinesAreNestedCalls ==
  [][/\ ~print_profiling_report(object_refs', timing_refs').error =>
          \A p \in DOMAIN timing_refs' :
             /\ print_profiling_report(object_refs', timing_refs').lines[p]
                  = timing_refs'[p] \ {p}
             /\ p \notin print_profiling_report(object_refs', timing_refs').lines[p]
     /\ \A k \in DOMAIN timing_refs' :
          \A m \in Joined(k) \ {k} :
             \E t \in Tasks :
                \E i \in RootsInFlight(t) : stacks[t][i].hash_ref = k]_vars

\* ------------------------------------------------------------ stopwatch
\* TimerModule of timer_module.py.  get_timestamp_ms() reads the clock ms, a
\* non-decreasing integer; each method is given the reading it takes.
MaxMs == 4         \* last value of the millisecond clock

\* start() resuming from the current clock reading, cr_time ignored
start_from_now(tm, timestamp_ms) ==
  [tm EXCEPT !.st_time = IF tm.is_running THEN @ ELSE timestamp_ms,
             !.is_running = TRUE]

\* TimerModule.start
start(tm, timestamp_ms) ==
  [tm EXCEPT !.st_time = IF tm.is_running THEN @ ELSE timestamp_ms - tm.cr_time,
             !.is_running = TRUE]

\* TimerModule.pause
pause(tm, timestamp_ms) ==
  [tm EXCEPT !.cr_time = IF tm.is_running THEN timestamp_ms - tm.st_time ELSE @,
             !.is_running = FALSE]

\* TimerModule.reset
reset(tm) ==
  [tm EXCEPT !.st_time = 0, !.cr_time = 0, !.is_running = FALSE]

\* TimerModule.get_time_ms: the object afterwards and the value returned
get_time_ms(tm, timestamp_ms) ==
  LET after == [tm EXCEPT !.cr_time = IF tm.is_running
                                        THEN timestamp_ms - tm.st_time ELSE @]
  IN  [timer |-> after, ret |-> after.cr_time]

\* the clock advances by d ms; the time counts as run time if the stopwatch
\* is running
Elapse(d) ==
  /\ ms + d <= MaxMs
  /\ ms' = ms + d
  /\ ran' = IF timer.is_running THEN ran + d ELSE ran
  /\ tm_op' = TmOp("elapse", 0)
  /\ UNCHANGED timer
  /\ UNCHANGED profiling

Start ==
  /\ timer' = start(timer, ms)
  /\ tm_op' = TmOp("start", 0)
  /\ UNCHANGED <<ms, ran>>
  /\ UNCHANGED profiling

Pause ==
  /\ timer' = pause(timer, ms)
  /\ tm_op' = TmOp("pause", 0)
  /\ UNCHANGED <<ms, ran>>
  /\ UNCHANGED profiling

Reset ==
  /\ timer' = reset(timer)
  /\ ran' = 0
  /\ tm_op' = TmOp("reset", 0)
  /\ UNCHANGED ms
  /\ UNCHANGED profiling

GetTimeMs ==
  /\ timer' = get_time_ms(timer, ms).timer
  /\ tm_op' = TmOp("get_time_ms", get_time_ms(timer, ms).ret)
  /\ UNCHANGED <<ms, ran>>
  /\ UNCHANGED profiling

NextTimer ==
  \/ \E d \in 1..MaxMs : Elapse(d)
  \/ Start
  \/ Pause
  \/ Reset
  \/ GetTimeMs

SpecTimer == Init /\ [][NextTimer]_vars

\* C20: under any sequence of start, pause, get_time_ms and reset with a
\* non-decreasing integer clock, get_time_ms returns the clock time that
\* elapsed while the stopwatch was running since the last reset; start on a
\* running stopwatch and pause on a paused one change nothing; reset leaves
\* it stopped at zero.
C20_StopwatchCountsRunTime ==
  [][/\ tm_op'.name = "get_time_ms" => tm_op'.ret = ran'
     /\ (tm_op'.name = "start" /\ timer.is_running) => timer' = timer
     /\ (tm_op'.name = "pause" /\ ~timer.is_running) => timer' = timer
     /\ tm_op'.name = "reset" =>
          /\ ~timer'.is_running
          /\ get_time_ms(timer', ms').ret = 0]_vars

\* C20 witness: get_time_ms on a running stopwatch, with clock time having
\* passed both while it was running and while it was not
C20_Witness ==
  /\ tm_op.name = "get_time_ms"
  /\ timer.is_running
  /\ timer.st_time > 0
  /\ tm_op.ret >= 2
  /\ tm_op.ret < ms
====
